---- MODULE Spec2Model ----
(***************************************************************************)
(* Population-size estimators of iceberg/estimate.py: the BBC estimator    *)
(* (bbc) and Cuthbert's search-based estimator (cuthbert) with its         *)
(* cross-validation trials.                                                *)
(*                                                                         *)
(* Numbers.  The source computes in IEEE doubles.  Two encodings are used: *)
(*  - _calculate_error is an exact rational num/den plus a rounding        *)
(*    residue eps in {-1,0,1}: exp(sum(log ...)) is not an identity in     *)
(*    doubles, so a value that is not produced by an exact path carries a  *)
(*    residue far below every non-zero gap of the bounded domain; which    *)
(*    sign the residue takes depends on the libm of the build and is a     *)
(*    nondeterministic input of the evaluation.                            *)
(*  - the BBC loop is computed in fixed point with FixedScale units per 1. *)
(***************************************************************************)
EXTENDS Integers, Naturals, Sequences, FiniteSets, TLC

\* ------------------------------------------------------------------ bounds
MaxEntity == 3
MaxSampleLen == 2
MaxSamples == 3
MaxSampleSize == 5
MaxInvSurvival == 3
FixedScale == 10000
SeriesTerms == 24
IterationLimit == 10000

\* --------------------------------------------------------------- utilities
Range(f) == {f[i] : i \in DOMAIN f}

RECURSIVE SumSeq(_)
SumSeq(s) == IF s = <<>> THEN 0 ELSE Head(s) + SumSeq(Tail(s))

RECURSIVE SumOver(_, _)
SumOver(S, F) ==
  IF S = {} THEN 0
  ELSE LET x == CHOOSE y \in S : TRUE IN F[x] + SumOver(S \ {x}, F)

Max2(a, b) == IF a >= b THEN a ELSE b

Abs(a) == IF a >= 0 THEN a ELSE -a

\* ceil(p / q) for q > 0
CeilDiv(p, q) == IF p >= 0 THEN (p + q - 1) \div q ELSE -((-p) \div q)

\* ----------------------------------------------------------------- inputs
\* A sample is a list of distinct entities (a draw without replacement);
\* lists are kept in increasing order (the estimators never look at the
\* order inside a sample).
SampleLists ==
  { s \in UNION { [1..l -> 1..MaxEntity] : l \in 0..MaxSampleLen } :
      \A i \in DOMAIN s : \A j \in DOMAIN s : i < j => s[i] < s[j] }

\* position of a sample in the order "shorter first, then lexicographic"
RECURSIVE SampleCode(_, _)
SampleCode(s, i) ==
  IF i > Len(s) THEN 0 ELSE s[i] + (MaxEntity + 1) * SampleCode(s, i + 1)

SampleRank(s) == <<Len(s), SampleCode(s, 1)>>

RankLeq(a, b) == a[1] < b[1] \/ (a[1] = b[1] /\ a[2] <= b[2])

\* the samples that hold entity e
Holders(ss, e) == { i \in DOMAIN ss : e \in Range(ss[i]) }

\* the entities are 1..n for some n, the more frequent ones first
FrequentFirst(ss) ==
  \A e \in 2..MaxEntity :
    Cardinality(Holders(ss, e)) <= Cardinality(Holders(ss, e - 1))

\* The estimators are symmetric in the order of the samples (a product
\* over the sample sizes, a Counter over all samples, a uniform choice of
\* holdout indices) and use entities only as dictionary and set keys, so
\* one ordering of each collection and one naming of its entities is enough.
SmallSampleSets ==
  { ss \in UNION { [1..k -> SampleLists] : k \in 0..MaxSamples } :
      /\ \A i \in DOMAIN ss : \A j \in DOMAIN ss :
           i < j => RankLeq(SampleRank(ss[i]), SampleRank(ss[j]))
      /\ FrequentFirst(ss) }

\* simulate.identical_samples_save_one: n_samples copies of the entities
\* 0..sample_size-1, with the entity sample_size appended to the first copy
identical_samples_save_one(n_samples, sample_size) ==
  [ i \in 1..n_samples |->
      IF i = 1 THEN [ j \in 1..(sample_size + 1) |-> j - 1 ]
               ELSE [ j \in 1..sample_size |-> j - 1 ] ]

IdenticalSaveOneSets ==
  { identical_samples_save_one(k, z) : k \in 2..MaxSamples, z \in 0..MaxSampleSize }

\* one sample of the entities 0..z-1
SingleSampleSets ==
  { << [ j \in 1..z |-> j - 1 ] >> : z \in 0..(MaxSampleSize + 1) }

SampleSets == SmallSampleSets \cup IdenticalSaveOneSets \cup SingleSampleSets

\* max_delta of bbc, in fixed-point units (0.001 is the default)
MaxDeltas == { FixedScale \div 1000, FixedScale \div 100 }

\* ------------------------------------------------- derived sample-set data
\* [len(sample) for sample in samples]
SampleSizes(ss) == [ i \in DOMAIN ss |-> Len(ss[i]) ]

\* set(entity for sample in samples for entity in sample)
EntitiesOf(ss) == UNION { Range(ss[i]) : i \in DOMAIN ss }

Occurrences(s, e) == Cardinality({ j \in DOMAIN s : s[j] = e })

\* faulty variant: Counter over the set of entities: every entity counts once
EntityCountsOfSet(ss) == [ e \in EntitiesOf(ss) |-> 1 ]

\* dict(Counter([entity for sample in samples for entity in sample]))
EntityCounts(ss) ==
  [ e \in EntitiesOf(ss) |->
      SumSeq([ i \in DOMAIN ss |-> Occurrences(ss[i], e) ]) ]

\* faulty variant: the distinct counts, each taken once
FrequencyCountsOfSet(ec) == [ f \in Range(ec) |-> 1 ]

\* dict(Counter(list(entity_counts.values())))
FrequencyCounts(ec) ==
  [ f \in Range(ec) |-> Cardinality({ e \in DOMAIN ec : ec[e] = f }) ]

\* ------------------------------------------------------ fixed-point numbers
\* a * b for fixed-point a, b (split so that no product leaves 32 bits)
MulFix(a, b) == (a \div FixedScale) * b + ((a % FixedScale) * b) \div FixedScale

\* e = sum 1/k!, as a fixed-point number
RECURSIVE InvFactSum(_, _)
InvFactSum(term, k) ==
  IF term = 0 \/ k > SeriesTerms THEN 0
  ELSE term + InvFactSum(term \div k, k + 1)

ExpOne == InvFactSum(FixedScale, 1)

\* np.exp(f) for a natural f
RECURSIVE ExpNat(_)
ExpNat(f) == IF f = 0 THEN FixedScale ELSE MulFix(ExpNat(f - 1), ExpOne)

\* sum([frequency_counts[f] / np.exp(f) for f in frequency_counts])
BiasedEstimate(fc) ==
  SumOver(DOMAIN fc,
          [ f \in DOMAIN fc |-> (fc[f] * FixedScale * FixedScale) \div ExpNat(f) ])

\* (1 - exp(-t)) / t = sum_k (-t)^k / (k+1)!, for fixed-point t >= 0
RECURSIVE PhiSeries(_, _, _)
PhiSeries(term, t, k) ==
  IF term = 0 \/ k > SeriesTerms THEN 0
  ELSE term - PhiSeries((term * t) \div (FixedScale * (k + 1)), t, k + 1)

\* biased_est + previous_est * np.exp(-1 * frequency_counts[1] / previous_est)
\* previous_est * exp(-t) with t = f1 / previous_est is evaluated as
\* previous_est - f1 * (1 - exp(-t)) / t, which keeps the fixed-point error
\* independent of the size of previous_est.
BbcCorrect(biased, previous, f1) ==
  LET t == (f1 * FixedScale * FixedScale) \div previous
  IN  biased + previous - f1 * PhiSeries(FixedScale, t, 1)

\* int(np.ceil(x)) of a fixed-point x
CeilFix(x) == CeilDiv(x, FixedScale)

\* ---------------------------------------------------------- error function
\* outcomes of the rounding of one inexact double evaluation
Roundings == {-1, 0, 1}

RECURSIVE ProdDiff(_, _)
\* product over the samples of (estimate - sample_size)
ProdDiff(x, sizes) ==
  IF sizes = <<>> THEN 1 ELSE (x - Head(sizes)) * ProdDiff(x, Tail(sizes))

RECURSIVE Pow(_, _)
Pow(b, k) == IF k = 0 THEN 1 ELSE b * Pow(b, k - 1)

NaN == [nan |-> TRUE, num |-> 0, den |-> 1, eps |-> 0]

Num(n, d, e) == [nan |-> FALSE, num |-> n, den |-> d, eps |-> e]

\* _calculate_error(estimate, num_entities, sample_sizes); rnd is the
\* rounding outcome of this evaluation.
\*   np.log of a negative number is nan, np.log(0) is -inf and
\*   (-inf) - (-inf) is nan;  exp(-inf) is exactly 0.0, so an estimate equal
\*   to a sample size gives exactly -(estimate - num_entities);
\*   otherwise the value is estimate * prod((estimate - s) / estimate) -
\*   (estimate - num_entities), computed through log and exp and so inexact.
calculate_error(estimate, num_entities, sample_sizes, rnd) ==
  LET k == Len(sample_sizes)
  IN  IF \E i \in 1..k : estimate - sample_sizes[i] < 0 THEN NaN
      ELSE IF estimate = 0
        THEN IF k > 0 THEN NaN ELSE Num(num_entities, 1, 0)
      ELSE IF \E i \in 1..k : estimate = sample_sizes[i]
        THEN Num(num_entities - estimate, 1, 0)
      ELSE IF k = 0 THEN Num(num_entities, 1, rnd)
      ELSE Num(ProdDiff(estimate, sample_sizes)
                 - (estimate - num_entities) * Pow(estimate, k - 1),
               Pow(estimate, k - 1), rnd)

\* error > 0 and error <= 0 (both false for nan)
Positive(e) == ~e.nan /\ (e.num > 0 \/ (e.num = 0 /\ e.eps > 0))

\* faulty variant: error < 0 in place of error <= 0
StrictlyNegative(e) == ~e.nan /\ (e.num < 0 \/ (e.num = 0 /\ e.eps < 0))

NonPositive(e) == ~e.nan /\ (e.num < 0 \/ (e.num = 0 /\ e.eps <= 0))

\* a <= b
ErrLeq(a, b) ==
  /\ ~a.nan /\ ~b.nan
  /\ \/ a.num * b.den < b.num * a.den
     \/ a.num * b.den = b.num * a.den /\ a.eps <= b.eps

SignOf(e) == IF e.nan THEN "nan" ELSE IF Positive(e) THEN "pos" ELSE "nonpos"

\* the exact value of the error formula (no rounding)
ExactError(x, n, sizes) == calculate_error(x, n, sizes, 0)

\* ------------------------------------------------------------------- state
MaxTrials == 2
MaxOffset == 8
DepthLimit == 100

\* min_survival as a fraction <<p, q>> = p / q in (0, 1]
MinSurvivals == { <<1, d>> : d \in 1..MaxInvSurvival } \cup { <<2, 3>> }

Config(ms, c, ppn) == [min_survival |-> ms, cv |-> c, cv_ppn |-> ppn]

\* calls without cross-validation: cv is None (written <<>>), cv_ppn has
\* its default 0.2 (written <<1, 5>>)
SearchConfigs == { Config(ms, <<>>, <<1, 5>>) : ms \in MinSurvivals }

\* calls with cross-validation: cv = <<c>> is the integer c
CvConfigs ==
  { Config(<<2, 3>>, <<c>>, <<1, 5>>) : c \in 0..MaxTrials }
    \cup { Config(<<2, 3>>, <<1>>, <<1, 2>>) }

\* calls with a negative trial count or a holdout fraction outside (0, 1]
OutOfRangeConfigs ==
  { Config(<<2, 3>>, <<-1>>, <<1, 5>>),
    Config(<<2, 3>>, <<1>>, <<0, 1>>),
    Config(<<2, 3>>, <<1>>, <<3, 2>>),
    Config(<<2, 3>>, <<>>, <<3, 2>>) }

VARIABLES
  samples,          \* the argument samples of the call
  call,             \* the function called: "bbc", "cuthbert" or "error"
  max_delta,        \* bbc: max_delta (fixed point)
  min_survival,     \* cuthbert: min_survival
  cv,               \* cuthbert: cv
  cv_ppn,           \* cuthbert: cv_ppn
  pc,               \* position in the called function
  raised,           \* the exception that ended the call, or "none"
  frequency_counts, \* bbc: frequency_counts
  biased_est,       \* bbc: biased_est (fixed point)
  corrected_est,    \* bbc: corrected_est (fixed point)
  delta,            \* bbc: delta (fixed point)
  iterations,       \* bbc: number of passes through the while loop
  bbc_result,       \* bbc: the value returned
  max_pop_size,     \* cuthbert: max_pop_size
  lower_bound,      \* _recurse_to_best_estimate: lower_bound
  upper_bound,      \* _recurse_to_best_estimate: upper_bound
  estimates,        \* cuthbert: estimates
  signs,            \* history: candidate |-> sign of the error computed there
  trials,           \* history: number of calls of _cross_validate_estimate
  last_trial,       \* history: the holdout, the retained samples and true_new
                    \* of the latest trial that returned
  evaluations,      \* history: number of midpoints the bisection evaluated
  np_random,        \* the global generator of np.random: number of times it
                    \* has been advanced since the call
  probe             \* error probe: candidate and the errors at it and above

vars == << samples, call, max_delta, min_survival, cv, cv_ppn, pc, raised,
           frequency_counts, biased_est, corrected_est, delta, iterations,
           bbc_result, max_pop_size, lower_bound, upper_bound, estimates,
           signs, trials, last_trial, evaluations, np_random, probe >>

bbc_vars == << frequency_counts, biased_est, corrected_est, delta,
               iterations, bbc_result >>

cuthbert_vars == << max_pop_size, lower_bound, upper_bound, estimates,
                    signs, trials, last_trial, evaluations, np_random >>

args == << samples, call, max_delta, min_survival, cv, cv_ppn >>

NoProbe == [x |-> 0, here |-> NaN, next |-> NaN, set |-> FALSE]

NoTrial ==
  [validation_samples |-> {}, retained_samples |-> {}, true_new |-> 0,
   set |-> FALSE]

Locals ==
  /\ pc = "call"
  /\ raised = "none"
  /\ frequency_counts = <<>>
  /\ biased_est = 0
  /\ corrected_est = 0
  /\ delta = 0
  /\ iterations = 0
  /\ bbc_result = 0
  /\ max_pop_size = 0
  /\ lower_bound = 0
  /\ upper_bound = 0
  /\ estimates = [uncorrected |-> 0, corrected |-> <<>>]
  /\ signs = <<>>
  /\ trials = 0
  /\ last_trial = NoTrial
  /\ evaluations = 0
  /\ np_random = 0
  /\ probe = NoProbe

\* a call of bbc(samples, max_delta)
InitBbc ==
  /\ call = "bbc"
  /\ samples \in SampleSets
  /\ max_delta \in MaxDeltas
  /\ min_survival = <<1, 1>>
  /\ cv = <<>>
  /\ cv_ppn = <<1, 5>>

\* a call of cuthbert(samples, min_survival, cv, cv_ppn)
InitCuthbert ==
  /\ call = "cuthbert"
  /\ max_delta = FixedScale \div 1000
  /\ \E c \in SearchConfigs \cup CvConfigs \cup OutOfRangeConfigs :
       /\ min_survival = c.min_survival
       /\ cv = c.cv
       /\ cv_ppn = c.cv_ppn
       /\ samples \in (IF c \in SearchConfigs THEN SampleSets
                                              ELSE SmallSampleSets)

Init == (InitBbc \/ InitCuthbert) /\ Locals

\* --------------------------------------------------------------------- bbc
\* bbc, from the call to the first test of the while loop: count the
\* frequencies, raise ValueError when no entity was observed exactly once,
\* else compute biased_est and initialise the loop.
bbc_begin ==
  /\ pc = "call" /\ call = "bbc"
  /\ LET fc == FrequencyCounts(EntityCounts(samples))
     IN  IF 1 \notin DOMAIN fc
         THEN /\ frequency_counts' = fc
              /\ raised' = "ValueError"
              /\ pc' = "raised"
              /\ UNCHANGED << biased_est, corrected_est, delta, iterations,
                              bbc_result >>
         ELSE /\ frequency_counts' = fc
              /\ biased_est' = BiasedEstimate(fc)
              /\ corrected_est' = BiasedEstimate(fc)
              /\ delta' = max_delta + FixedScale
              /\ pc' = "bbc_loop"
              /\ UNCHANGED << raised, iterations, bbc_result >>
  /\ UNCHANGED << args, cuthbert_vars, probe >>

\* one pass through the body of `while delta > max_delta`
bbc_iterate ==
  /\ pc = "bbc_loop"
  /\ delta > max_delta
  /\ iterations <= IterationLimit
  /\ LET previous_est == corrected_est
         next_est == BbcCorrect(biased_est, previous_est, frequency_counts[1])
     IN  /\ corrected_est' = next_est
         /\ delta' = Abs(next_est - previous_est)
  /\ iterations' = iterations + 1
  /\ UNCHANGED << args, pc, raised, frequency_counts, biased_est, bbc_result,
                  cuthbert_vars, probe >>

\* the loop is left: return len(entity_counts) + int(np.ceil(corrected_est))
bbc_return ==
  /\ pc = "bbc_loop"
  /\ delta <= max_delta
  /\ bbc_result' = Cardinality(EntitiesOf(samples)) + CeilFix(corrected_est)
  /\ pc' = "done"
  /\ UNCHANGED << args, raised, frequency_counts, biased_est, corrected_est,
                  delta, iterations, cuthbert_vars, probe >>

\* ---------------------------------------------------------------- cuthbert
\* faulty variant: len(entities) * min_survival in place of the quotient
MaxPopSizeProduct(n, ms) == CeilDiv(n * ms[1], ms[2])

\* faulty variant: floor + 1 in place of ceil
MaxPopSizeFloorPlusOne(n, ms) == ((n * ms[2]) \div ms[1]) + 1

\* int(np.ceil(len(entities) / min_survival))
MaxPopSize(n, ms) == CeilDiv(n * ms[2], ms[1])

Record(sg, x, e) == (x :> SignOf(e)) @@ sg

\* cuthbert up to the end of the short-circuits of _find_best_estimate:
\* sample_sizes, entities and max_pop_size are computed, the error at
\* max_pop_size and then at num_entities is tested.
find_best_estimate ==
  /\ pc = "call" /\ call = "cuthbert"
  /\ LET sample_sizes == SampleSizes(samples)
         num_entities == Cardinality(EntitiesOf(samples))
         mps == MaxPopSize(num_entities, min_survival)
     IN  \E rmax \in Roundings, rmin \in Roundings :
           /\ mps = num_entities => rmin = rmax
           /\ LET error_at_max ==
                    calculate_error(mps, num_entities, sample_sizes, rmax)
                  error_at_min ==
                    calculate_error(num_entities, num_entities, sample_sizes, rmin)
              IN  /\ max_pop_size' = mps
                  /\ IF Positive(error_at_max)
                     THEN /\ estimates' = [estimates EXCEPT !.uncorrected = mps]
                          /\ signs' = Record(signs, mps, error_at_max)
                          /\ pc' = "cv"
                          /\ UNCHANGED << lower_bound, upper_bound >>
                     ELSE IF NonPositive(error_at_min)
                     THEN /\ estimates' =
                               [estimates EXCEPT !.uncorrected = num_entities]
                          /\ signs' = Record(Record(signs, mps, error_at_max),
                                             num_entities, error_at_min)
                          /\ pc' = "cv"
                          /\ UNCHANGED << lower_bound, upper_bound >>
                     ELSE /\ lower_bound' = num_entities
                          /\ upper_bound' = mps
                          /\ signs' = Record(Record(signs, mps, error_at_max),
                                             num_entities, error_at_min)
                          /\ pc' = "recurse"
                          /\ UNCHANGED estimates
  /\ UNCHANGED << args, raised, bbc_vars, trials, last_trial, evaluations,
                  np_random, probe >>

\* int(np.ceil((lower_bound + upper_bound) / 2))
Midpoint(lo, hi) == CeilDiv(lo + hi, 2)

\* one call of _recurse_to_best_estimate(lower_bound, upper_bound, ...)
recurse_to_best_estimate ==
  /\ pc = "recurse"
  /\ IF upper_bound - lower_bound <= 1
     THEN /\ estimates' = [estimates EXCEPT !.uncorrected = upper_bound]
          /\ pc' = "cv"
          /\ UNCHANGED << lower_bound, upper_bound, signs, evaluations >>
     ELSE \E rnd \in Roundings :
            LET midpoint == Midpoint(lower_bound, upper_bound)
                error_at_midpoint ==
                  calculate_error(midpoint, Cardinality(EntitiesOf(samples)),
                                  SampleSizes(samples), rnd)
            IN  /\ IF Positive(error_at_midpoint)
                   THEN lower_bound' = midpoint /\ UNCHANGED upper_bound
                   ELSE upper_bound' = midpoint /\ UNCHANGED lower_bound
                /\ signs' = Record(signs, midpoint, error_at_midpoint)
                /\ evaluations' = evaluations + 1
                /\ UNCHANGED << estimates, pc >>
  /\ UNCHANGED << args, raised, bbc_vars, max_pop_size, trials, last_trial,
                  np_random, probe >>

\* -------------------------------------------------------- cross-validation
KSubsets(S, k) == { T \in SUBSET S : Cardinality(T) = k }

\* list(entities) + simulated_entities: the observed entities and
\* uncorrected - len(entities) simulated ones (written as negative numbers)
SimulatedPopulation(entities, uncorrected) ==
  entities \cup { -i : i \in 1..(uncorrected - Cardinality(entities)) }

\* np.array(samples, dtype=object) is one-dimensional (an array of lists)
\* when samples is empty or its lists differ in length; lists of one common
\* length make a two-dimensional array, which np.random.choice rejects.
OneDimensional(ss) ==
  \/ Len(ss) = 0
  \/ \E i \in DOMAIN ss, j \in DOMAIN ss : Len(ss[i]) # Len(ss[j])

\* int(np.ceil(cv_ppn * len(samples)))
CvSize(ppn, ss) == CeilDiv(ppn[1] * Len(ss), ppn[2])

RECURSIVE SimulatedEntitySets(_, _, _)
\* the sets that the union of one draw per held-out sample can be, each draw
\* being len(sample) entities of the population without replacement
SimulatedEntitySets(population, ss, held) ==
  IF held = {} THEN { {} }
  ELSE LET i == CHOOSE j \in held : TRUE
       IN  { d \cup r : d \in KSubsets(population, Len(ss[i])),
                        r \in SimulatedEntitySets(population, ss, held \ {i}) }

\* retained_samples: the samples equal to no held-out sample
RetainedSamples(ss, held) ==
  { i \in DOMAIN ss : \A h \in held : ss[i] # ss[h] }

RetainedEntities(ss, held) ==
  UNION { Range(ss[i]) : i \in RetainedSamples(ss, held) }

\* true_new = num_observed - len(retained_entities)
TrueNew(num_observed, retained) == num_observed - Cardinality(retained)

\* faulty variant: correction_factor without the clamp max(..., 0)
CorrectedEstimateUnclamped(population_size, num_observed, retained, simulated) ==
  LET true_new == num_observed - Cardinality(retained)
      simulated_new == Cardinality(simulated \ retained)
      cf_num == true_new - simulated_new
      cf_den == Max2(simulated_new, 1)
  IN  num_observed
        + CeilDiv((population_size - num_observed) * (cf_den + cf_num), cf_den)

\* lines 180-190: the corrected estimate of one trial
CorrectedEstimate(population_size, num_observed, retained, simulated) ==
  LET true_new == num_observed - Cardinality(retained)
      simulated_new == Cardinality(simulated \ retained)
      \* correction_factor = cf_num / cf_den
      cf_num == Max2(true_new - simulated_new, 0)
      cf_den == Max2(simulated_new, 1)
  IN  num_observed
        + CeilDiv((population_size - num_observed) * (cf_den + cf_num), cf_den)

\* np.random.choice(a, size, replace=False) permutes the indices of a with
\* the global generator: the generator advances when a has two elements or
\* more (a permutation of fewer elements draws nothing)
Advances(population_size) == IF population_size >= 2 THEN 1 ELSE 0

\* one pass of `for _ in range(cv)`: a call of _cross_validate_estimate and
\* the append of its result; a ValueError of np.random.choice ends cuthbert.
cross_validate_estimate ==
  /\ pc = "cv"
  /\ cv # <<>>
  /\ Len(estimates.corrected) < cv[1]
  /\ trials' = trials + 1
  /\ UNCHANGED evaluations
  /\ LET entities == EntitiesOf(samples)
         num_observed == Cardinality(entities)
         simulated_population ==
           SimulatedPopulation(entities, estimates.uncorrected)
         cv_size == CvSize(cv_ppn, samples)
     IN  IF \/ ~OneDimensional(samples)
            \/ cv_size > Len(samples)
         THEN /\ raised' = "ValueError"
              /\ pc' = "raised"
              /\ UNCHANGED << estimates, np_random, last_trial >>
         ELSE \E held \in KSubsets(DOMAIN samples, cv_size) :
                IF \E i \in held :
                     Len(samples[i]) > Cardinality(simulated_population)
                THEN /\ raised' = "ValueError"
                     /\ pc' = "raised"
                     /\ \E drawn \in 0..(Cardinality(held) - 1) :
                          np_random' = np_random
                            + Advances(Len(samples))
                            + drawn * Advances(Cardinality(simulated_population))
                     /\ UNCHANGED << estimates, last_trial >>
                ELSE \E simulated_entities \in
                         SimulatedEntitySets(simulated_population, samples, held) :
                       /\ estimates' =
                            [estimates EXCEPT !.corrected =
                               Append(@, CorrectedEstimate(
                                  Cardinality(simulated_population), num_observed,
                                  RetainedEntities(samples, held),
                                  simulated_entities))]
                       /\ last_trial' =
                            [validation_samples |-> held,
                             retained_samples |-> RetainedSamples(samples, held),
                             true_new |-> TrueNew(num_observed,
                                            RetainedEntities(samples, held)),
                             set |-> TRUE]
                       /\ np_random' = np_random
                            + Advances(Len(samples))
                            + Cardinality(held)
                                * Advances(Cardinality(simulated_population))
                       /\ UNCHANGED << raised, pc >>
  /\ UNCHANGED << args, bbc_vars, max_pop_size, lower_bound, upper_bound,
                  signs, probe >>

\* cuthbert returns estimates: cv is None or the loop over range(cv) is over
cuthbert_return ==
  /\ pc = "cv"
  /\ IF cv = <<>> THEN TRUE ELSE Len(estimates.corrected) >= cv[1]
  /\ pc' = "done"
  /\ UNCHANGED << args, raised, bbc_vars, cuthbert_vars, probe >>

Next ==
  \/ bbc_begin
  \/ bbc_iterate
  \/ bbc_return
  \/ find_best_estimate
  \/ recurse_to_best_estimate
  \/ cross_validate_estimate
  \/ cuthbert_return

Spec == Init /\ [][Next]_vars

\* ------------------------------------------------- the error function alone
\* candidate sizes of the admissible domain: at least num_entities and at
\* least every sample size
ProbeCandidates(ss) ==
  LET n == Cardinality(EntitiesOf(ss))
  IN  { x \in n..(n * MaxInvSurvival) :
          \A i \in DOMAIN ss : x >= Len(ss[i]) }

InitError ==
  /\ call = "error"
  /\ samples \in SampleSets
  /\ max_delta = FixedScale \div 1000
  /\ min_survival = <<1, 1>>
  /\ cv = <<>>
  /\ cv_ppn = <<1, 5>>
  /\ Locals

\* _calculate_error at a candidate size and at the next one
probe_error ==
  /\ call = "error"
  /\ ~probe.set
  /\ \E x \in ProbeCandidates(samples), r0 \in Roundings, r1 \in Roundings :
       LET n == Cardinality(EntitiesOf(samples))
           sizes == SampleSizes(samples)
       IN  probe' = [x |-> x,
                     here |-> calculate_error(x, n, sizes, r0),
                     next |-> calculate_error(x + 1, n, sizes, r1),
                     set |-> TRUE]
  /\ UNCHANGED << args, pc, raised, bbc_vars, cuthbert_vars >>

NextError == probe_error

SpecError == InitError /\ [][NextError]_vars

\* ------------------------------------ the bisection between 2^53 and 2^54
\* A min_survival below about 1e-16 puts max_pop_size above 2^53, where the
\* doubles are the even integers.  In this specification lower_bound and
\* upper_bound are written as offsets from 2^53; both are doubles (they are
\* results of int(np.ceil(float))), so the offsets are even.
DoubleSpacing == 2

DoubleOffsets == { o \in 0..MaxOffset : o % DoubleSpacing = 0 }

\* the double nearest to 2^53 + twice / 2, ties to the even mantissa, as an
\* offset: the true division (lower_bound + upper_bound) / 2
TrueDivideByTwo(twice) ==
  LET down == (twice \div (2 * DoubleSpacing)) * DoubleSpacing
      up == down + DoubleSpacing
  IN  IF twice - 2 * down < 2 * up - twice THEN down
      ELSE IF twice - 2 * down > 2 * up - twice THEN up
      ELSE IF (down \div DoubleSpacing) % 2 = 0 THEN down ELSE up

\* int(np.ceil((lower_bound + upper_bound) / 2)): the quotient is already
\* an integer, np.ceil leaves it as it is
MidpointOfDoubles(lo, hi) == TrueDivideByTwo(lo + hi)

\* a call of _recurse_to_best_estimate some levels into the search: the
\* error computed at lower_bound was positive, at upper_bound it was not
InitDoubleRange ==
  /\ call = "search"
  /\ samples = <<>>
  /\ max_delta = FixedScale \div 1000
  /\ min_survival = <<1, 1>>
  /\ cv = <<>>
  /\ cv_ppn = <<1, 5>>
  /\ frequency_counts = <<>>
  /\ biased_est = 0
  /\ corrected_est = 0
  /\ delta = 0
  /\ iterations = 0
  /\ bbc_result = 0
  /\ max_pop_size = MaxOffset
  /\ estimates = [uncorrected |-> 0, corrected |-> <<>>]
  /\ trials = 0
  /\ last_trial = NoTrial
  /\ evaluations = 0
  /\ np_random = 0
  /\ probe = NoProbe
  /\ raised = "none"
  /\ pc = "recurse"
  /\ lower_bound \in DoubleOffsets
  /\ upper_bound \in DoubleOffsets
  /\ lower_bound < upper_bound
  /\ signs = (lower_bound :> "pos") @@ (upper_bound :> "nonpos")

\* one call of _recurse_to_best_estimate on such bounds.  _calculate_error
\* is a function of its arguments: a candidate evaluated before keeps its
\* sign, a new candidate may have either sign.  The model follows the
\* recursion down to DepthLimit calls.
recurse_between_doubles ==
  /\ call = "search"
  /\ pc = "recurse"
  /\ evaluations <= DepthLimit
  /\ IF upper_bound - lower_bound <= 1
     THEN /\ estimates' = [estimates EXCEPT !.uncorrected = upper_bound]
          /\ pc' = "done"
          /\ UNCHANGED << lower_bound, upper_bound, signs, evaluations >>
     ELSE \E sign \in {"pos", "nonpos"} :
            LET midpoint == MidpointOfDoubles(lower_bound, upper_bound)
            IN  /\ midpoint \in DOMAIN signs => sign = signs[midpoint]
                /\ IF sign = "pos"
                   THEN lower_bound' = midpoint /\ UNCHANGED upper_bound
                   ELSE upper_bound' = midpoint /\ UNCHANGED lower_bound
                /\ signs' = (midpoint :> sign) @@ signs
                /\ evaluations' = evaluations + 1
                /\ UNCHANGED << estimates, pc >>
  /\ UNCHANGED << args, raised, bbc_vars, max_pop_size, trials, last_trial,
                  np_random, probe >>

NextDoubleRange == recurse_between_doubles

SpecDoubleRange == InitDoubleRange /\ [][NextDoubleRange]_vars

\* ================================================================== claims
NumObserved == Cardinality(EntitiesOf(samples))

\* the number of times entity e occurs in the samples
RECURSIVE ObservedFrequency(_, _)
ObservedFrequency(ss, e) ==
  IF ss = <<>> THEN 0
  ELSE Occurrences(Head(ss), e) + ObservedFrequency(Tail(ss), e)

\* ceil(n_observed / min_survival)
SearchCeiling == CeilDiv(NumObserved * min_survival[2], min_survival[1])

\* the uncorrected estimate of the cuthbert call has been computed
UncorrectedKnown == call = "cuthbert" /\ pc \in {"cv", "done", "raised"}

\* every sample size lies between 1 and n_observed
SizesWithinObserved ==
  \A i \in DOMAIN samples : 1 <= Len(samples[i]) /\ Len(samples[i]) <= NumObserved

\* C1: when no entity of the samples is observed exactly once (every observed
\* entity occurs at least twice), bbc ends with ValueError: it never enters
\* the correction loop and returns no estimate.
C1_NoSingletonRaises ==
  ( /\ call = "bbc"
    /\ pc # "call"
    /\ \A e \in EntitiesOf(samples) : ObservedFrequency(samples, e) >= 2 )
  => ( /\ pc = "raised"
       /\ raised = "ValueError"
       /\ iterations = 0
       /\ bbc_result = 0 )

C1_Witness ==
  /\ call = "bbc"
  /\ samples = << <<1, 2>>, <<1, 2>> >>
  /\ pc = "raised"
  /\ raised = "ValueError"

\* C2: for sample sizes between 1 and n_observed, the uncorrected estimate u
\* satisfies (error(u-1) > 0 or u = n_observed) and (error(u) <= 0 or
\* u = max_size), error being the exact value of the error formula.
C2_BisectionCorrect ==
  (UncorrectedKnown /\ SizesWithinObserved)
  => LET u == estimates.uncorrected
         sizes == SampleSizes(samples)
     IN  /\ u = NumObserved \/ Positive(ExactError(u - 1, NumObserved, sizes))
         /\ u = SearchCeiling \/ NonPositive(ExactError(u, NumObserved, sizes))

\* C3: the estimate returned by bbc and the uncorrected estimate of cuthbert
\* are both at least the number of distinct entities observed.
C3_LowerBound ==
  /\ (call = "bbc" /\ pc = "done") => bbc_result >= NumObserved
  /\ UncorrectedKnown => estimates.uncorrected >= NumObserved

C3_Witness ==
  /\ call = "cuthbert"
  /\ pc = "done"
  /\ NumObserved = 2
  /\ min_survival = <<1, 3>>
  /\ estimates.uncorrected = NumObserved

\* C4: on the admissible domain (candidate at least n_observed and at least
\* every sample size, sample sizes between 1 and n_observed) the error
\* computed at candidate + 1 is at most the error computed at candidate.
C4_ErrorNonIncreasing ==
  (call = "error" /\ probe.set /\ SizesWithinObserved)
  => ErrLeq(probe.next, probe.here)

\* C5: the correction loop of bbc makes at most IterationLimit passes.
C5_LoopBounded == iterations <= IterationLimit

\* identical_samples_save_one(k, z) for some k >= 2 and the sample size z
IsIdenticalSaveOne(z) ==
  \E k \in 2..MaxSamples : samples = identical_samples_save_one(k, z)

C7_WithinDomain ==
  UncorrectedKnown
  => /\ NumObserved <= estimates.uncorrected
     /\ estimates.uncorrected <= SearchCeiling
     /\ SearchCeiling \in DOMAIN signs
     /\ signs[SearchCeiling] = "pos" => estimates.uncorrected = SearchCeiling

C7_Witness ==
  /\ call = "cuthbert"
  /\ pc = "done"
  /\ SearchCeiling > NumObserved
  /\ signs[SearchCeiling] = "pos"
  /\ estimates.uncorrected = SearchCeiling

\* the configuration of the cuthbert call is valid: cv is None or a natural
\* number, cv_ppn lies in (0, 1]
ValidConfig ==
  /\ cv = <<>> \/ cv[1] >= 0
  /\ 0 < cv_ppn[1] /\ cv_ppn[1] <= cv_ppn[2]

RequestedTrials == IF cv = <<>> THEN 0 ELSE cv[1]

\* C8: a cuthbert call with a valid configuration returns (raises nothing),
\* and the corrected sequence of the returned record has exactly cv entries,
\* none when cv is None or 0.
C8_CorrectedLength ==
  (call = "cuthbert" /\ ValidConfig)
  => /\ raised = "none"
     /\ pc = "done" => Len(estimates.corrected) = RequestedTrials

\* C9: every corrected estimate of a trial is at least the uncorrected
\* estimate, which is at least n_observed.
C9_CorrectedAtLeastUncorrected ==
  call = "cuthbert"
  => \A i \in DOMAIN estimates.corrected :
       /\ estimates.corrected[i] >= estimates.uncorrected
       /\ estimates.uncorrected >= NumObserved

C9_Witness ==
  /\ call = "cuthbert"
  /\ Len(estimates.corrected) = 2
  /\ estimates.corrected[1] = estimates.uncorrected
  /\ estimates.corrected[2] > estimates.uncorrected
  /\ estimates.uncorrected > NumObserved

\* the configuration is invalid: a negative trial count, a holdout fraction
\* outside (0, 1], or a sample of size 0
InvalidConfig ==
  \/ ~ValidConfig
  \/ \E i \in DOMAIN samples : Len(samples[i]) = 0

\* C10: a cuthbert call with an invalid configuration fails before any
\* computation: no error is evaluated, no trial is run, and the call does
\* not return.
C10_FailsFast ==
  (call = "cuthbert" /\ InvalidConfig)
  => /\ signs = <<>>
     /\ trials = 0
     /\ pc \in {"call", "raised"}

\* the spectrum of the bbc call has been computed
SpectrumKnown == call = "bbc" /\ pc # "call"

\* C11: the values of the frequency spectrum of bbc sum to the number of
\* distinct observed entities, frequency * value sums to the sum of the
\* sample sizes, and the empty sample set gives the empty spectrum.
C11_SpectrumSums ==
  SpectrumKnown
  => /\ SumOver(DOMAIN frequency_counts, frequency_counts) = NumObserved
     /\ SumOver(DOMAIN frequency_counts,
                [ f \in DOMAIN frequency_counts |-> f * frequency_counts[f] ])
          = SumSeq(SampleSizes(samples))
     /\ samples = <<>> => DOMAIN frequency_counts = {}

C11_Witness ==
  /\ SpectrumKnown
  /\ Cardinality(DOMAIN frequency_counts) >= 2
  /\ \E f \in DOMAIN frequency_counts : frequency_counts[f] >= 2

\* C12: a cross-validation trial changes nothing that another trial reads;
\* in particular a trial of a valid call that returns an estimate leaves the
\* ambient generator of np.random as it was, so that a trial does not
\* depend on the trials run before it.
C12_TrialsIndependent ==
  [][( /\ pc = "cv"
       /\ ValidConfig
       /\ trials' = trials + 1
       /\ Len(estimates'.corrected) = Len(estimates.corrected) + 1 )
     => np_random' = np_random]_vars

\* the sign of the error computed at candidate x, "none" before it is computed
ComputedSign(x) == IF x \in DOMAIN signs THEN signs[x] ELSE "none"

\* the bounds of the bisection: error(lower) > 0, error(upper) <= 0 and
\* n_observed <= lower < upper <= max_size
BisectionBounds ==
  /\ ComputedSign(lower_bound) = "pos"
  /\ ComputedSign(upper_bound) = "nonpos"
  /\ NumObserved <= lower_bound
  /\ lower_bound < upper_bound
  /\ upper_bound <= max_pop_size

\* C13: once neither short-circuit of _find_best_estimate applies, every
\* call of _recurse_to_best_estimate is entered with error(lower) > 0,
\* error(upper) <= 0 and n_observed <= lower < upper <= max_size, error
\* being the value _calculate_error computed at the bound.
C13_BisectionBounds ==
  (call = "cuthbert" /\ pc = "recurse") => BisectionBounds

\* C14: a step of the bisection that evaluates a midpoint strictly shrinks
\* upper - lower, to at most the ceiling of half of it, whatever the sign
\* of the error at the midpoint (so that the search ends).
C14_StepShrinks ==
  [][(pc = "recurse" /\ evaluations' = evaluations + 1)
     => /\ upper_bound' - lower_bound' < upper_bound - lower_bound
        /\ upper_bound' - lower_bound'
             <= CeilDiv(upper_bound - lower_bound, 2)]_vars

\* the observed entities that occur in held-out samples only
OnlyHeldOut(held) ==
  { e \in EntitiesOf(samples) : Holders(samples, e) \subseteq held }

\* C15: in a trial the held-out and the retained samples partition the
\* sample set: ceil(holdout_fraction * |samples|) samples are held out, the
\* retained samples are all the others (also when samples have identical
\* contents), and true_new is the number of observed entities that occur
\* in held-out samples only (for a valid configuration: non-empty samples,
\* a holdout fraction in (0, 1] and a trial count that is not negative).
C15_HoldoutPartition ==
  (call = "cuthbert" /\ ~InvalidConfig /\ last_trial.set)
  => /\ Cardinality(last_trial.validation_samples) = CvSize(cv_ppn, samples)
     /\ last_trial.retained_samples
          = DOMAIN samples \ last_trial.validation_samples
     /\ last_trial.true_new
          = Cardinality(OnlyHeldOut(last_trial.validation_samples))

====
